---- MODULE Spec2Model ----
(***************************************************************************)
(* Model of the sqldb migration runner (RunMigrations and                  *)
(* runMigrationsCommon) of denis-kilchichakov/toolbox.                     *)
(*                                                                         *)
(* One runner is a Go call of db.RunMigrations(path); its position in the  *)
(* function is pc[r].  The database (the migrations bookkeeping table and  *)
(* the user table t the migration scripts work on) and the migrations      *)
(* directory are shared state.  Every database call and every file read    *)
(* may fail for reasons outside the program (I/O error, locked database);  *)
(* the number of such injected failures is bounded by MaxFaults.  Between  *)
(* two calls the directory may change, at most MaxEdits times.             *)
(***************************************************************************)
EXTENDS Integers, Sequences, FiniteSets, TLC

(* ---------------------------------------------------------------- bounds *)
MaxRuns == 2
MaxFaults == 1
MaxEdits == 1

(* ------------------------------------------------------------ the inputs *)
Runners == {1, 2}

MigrationsDir == "migrations"
MissingDir == "missing"
BadPatternDir == "mig["
Paths == {MigrationsDir, MissingDir, BadPatternDir}

Names == {"0.sql", "1.sql"}

CreateT == "CREATE TABLE t (a TEXT, b INT);"
InsertFoo == "INSERT INTO t (a,b) VALUES ('foo', 42);"
Contents == {CreateT, InsertFoo}
NoFile == "<absent>"

migrationsInitialScript == "CREATE TABLE IF NOT EXISTS migrations (...)"

(* ------------------------------------------------------- string helpers *)
Bytes(s) ==
    CASE s = "0.sql" -> <<48, 46, 115, 113, 108>>
      [] s = "1.sql" -> <<49, 46, 115, 113, 108>>
      [] s = "migrations" -> <<109, 105, 103, 114, 97, 116, 105, 111, 110, 115>>
      [] s = "missing" -> <<109, 105, 115, 115, 105, 110, 103>>
      [] s = "mig[" -> <<109, 105, 103, 91>>
      [] s = "seeds" -> <<115, 101, 101, 100, 115>>
      [] s = "notes.txt" -> <<110, 111, 116, 101, 115, 46, 116, 120, 116>>

RECURSIVE BytesLess(_, _)
BytesLess(a, b) ==
    IF a = <<>> THEN b # <<>>
    ELSE IF b = <<>> THEN FALSE
    ELSE IF Head(a) # Head(b) THEN Head(a) < Head(b)
    ELSE BytesLess(Tail(a), Tail(b))

Join(dir, name) == <<dir, name>>
Base(file) == file[2]
PathBytes(file) == Bytes(file[1]) \o <<47>> \o Bytes(file[2])
StringLess(f, g) == BytesLess(PathBytes(f), PathBytes(g))

RECURSIVE InsertSorted(_, _)
InsertSorted(x, s) ==
    IF s = <<>> THEN <<x>>
    ELSE IF StringLess(x, Head(s)) THEN <<x>> \o s
    ELSE <<Head(s)>> \o InsertSorted(x, Tail(s))

\* sort.Strings left out: the files stay in the order Glob gave them
SortStringsNone(s) == s

RECURSIVE SortStrings(_)
SortStrings(s) ==
    IF s = <<>> THEN <<>>
    ELSE InsertSorted(Head(s), SortStrings(Tail(s)))

Md5Hex(contents) ==
    CASE contents = CreateT -> "4a427fa4f5bb517a37fe47dec9e608a1"
      [] contents = InsertFoo -> "b5435768cce2aaa674e206d0c33c5b56"

(* ------------------------------------------------------------- the state *)
VARIABLES
    runners,    \* the runners that exist (fixed by the initial state)
    fs,         \* the migrations directory: file name -> contents or NoFile
    db,         \* the database: [created, rows] of table migrations, table t
    pc,         \* per runner: position in RunMigrations / runMigrationsCommon
    files,      \* per runner: the sorted list of files of the run
    idx,        \* per runner: index of the loop over files
    contents,   \* per runner: contents of the file being processed
    result,     \* per runner: what the last call returned ("none": no call returned yet)
    log,        \* per runner: what the current (or last) call did, in order
    start,      \* per runner: the database and directory as the call began
    last,       \* the call that returned most recently: [res, fs, path, at]
    executed,   \* per contents: number of successful executions so far
    unrecorded, \* per contents: number of executions whose record insert failed
    runs,       \* number of calls begun; also the clock time.Now() reads
    faults,     \* number of injected I/O failures so far
    edits,      \* number of changes made to the migrations directory
    msg,        \* telegram: the message inspected and what its methods returned
    bot,        \* telegram: the Bot, its polling goroutine and the callers of Close
    report,     \* report: the package variables and what reached the notifier
    llm,        \* llm: the call made to the Ollama client and its outcome
    secret      \* secret: the secret, the key, the nonce and what Wrap/Unwrap returned

vars == <<runners, fs, db, pc, files, idx, contents, result, log, start, last,
          executed, unrecorded, runs, faults, edits, msg, bot, report, llm, secret>>

\* the variables of the packages other than sqldb, and the value each has in a
\* specification that does not use its package
others == <<msg, bot, report, llm, secret>>
Unused == "unused"

NoDb == [created |-> FALSE, rows |-> <<>>,
         t |-> [exists |-> FALSE, foo |-> 0]]
NoCall == [res |-> "none", fs |-> [n \in Names |-> NoFile], path |-> "", at |-> ""]

(* ------------------------------------------------- the statement executor *)
\* the bookkeeping statement has no effect
ExecNoBookkeepingTable(d, stmt) ==
    CASE stmt = migrationsInitialScript -> [err |-> FALSE, db |-> d]
      [] stmt = CreateT ->
            IF d.t.exists THEN [err |-> TRUE, db |-> d]
            ELSE [err |-> FALSE, db |-> [d EXCEPT !.t.exists = TRUE]]
      [] stmt = InsertFoo ->
            IF d.t.exists THEN [err |-> FALSE, db |-> [d EXCEPT !.t.foo = @ + 1]]
            ELSE [err |-> TRUE, db |-> d]

\* db.Exec(stmt) on the SQLite database: the new database, or an error
Exec(d, stmt) ==
    CASE stmt = migrationsInitialScript ->
            [err |-> FALSE, db |-> [d EXCEPT !.created = TRUE]]
      [] stmt = CreateT ->
            IF d.t.exists THEN [err |-> TRUE, db |-> d]
            ELSE [err |-> FALSE, db |-> [d EXCEPT !.t.exists = TRUE]]
      [] stmt = InsertFoo ->
            IF d.t.exists THEN [err |-> FALSE, db |-> [d EXCEPT !.t.foo = @ + 1]]
            ELSE [err |-> TRUE, db |-> d]

applyMigration(d, migration, fault) ==
    IF fault THEN [err |-> TRUE, db |-> d] ELSE Exec(d, migration)

\* table migrations declared without its primary key
PrimaryKeyNone(rows, md5) == FALSE

\* PRIMARY KEY (md5) of table migrations
PrimaryKeyViolated(rows, md5) == \E i \in 1..Len(rows) : rows[i].md5 = md5

\* the lookup with every result other than an error taken for "no rows"
checkNeverApplied(d, nowMd5, fault) ==
    [applied |-> FALSE, err |-> fault \/ ~d.created]

\* the lookup with the test of sql.ErrNoRows inverted
checkInverted(d, nowMd5, fault) ==
    IF fault \/ ~d.created THEN [applied |-> FALSE, err |-> TRUE]
    ELSE [applied |-> ~\E i \in 1..Len(d.rows) : d.rows[i].md5 = nowMd5,
          err |-> FALSE]

\* SELECT file FROM migrations WHERE md5 = $1
checkIfMigrationPreviouslyApplied(d, nowMd5, fault) ==
    IF fault \/ ~d.created THEN [applied |-> FALSE, err |-> TRUE]
    ELSE [applied |-> \E i \in 1..Len(d.rows) : d.rows[i].md5 = nowMd5,
          err |-> FALSE]

\* the insert reports success without a row being written
saveMigrationInfoNoInsert(d, file, md5, now, fault) ==
    [err |-> fault \/ ~d.created \/ PrimaryKeyViolated(d.rows, md5), db |-> d]

\* the insert replaces the record of the same file name (one record per name)
RECURSIVE WithoutFile(_, _)
WithoutFile(rows, file) ==
    IF rows = <<>> THEN <<>>
    ELSE IF Head(rows).file = file THEN WithoutFile(Tail(rows), file)
    ELSE <<Head(rows)>> \o WithoutFile(Tail(rows), file)
saveMigrationInfoPerName(d, file, md5, now, fault) ==
    IF fault \/ ~d.created \/ PrimaryKeyViolated(d.rows, md5)
    THEN [err |-> TRUE, db |-> d]
    ELSE [err |-> FALSE,
          db |-> [d EXCEPT !.rows =
                    Append(WithoutFile(@, file),
                           [file |-> file, md5 |-> md5, applied_at |-> now])]]

\* INSERT INTO migrations (file, md5, applied_at) VALUES ($1, $2, $3)
saveMigrationInfo(d, file, md5, now, fault) ==
    IF fault \/ ~d.created \/ PrimaryKeyViolated(d.rows, md5)
    THEN [err |-> TRUE, db |-> d]
    ELSE [err |-> FALSE,
          db |-> [d EXCEPT !.rows =
                    Append(@, [file |-> file, md5 |-> md5, applied_at |-> now])]]

\* os.ReadFile(file)
readFileFunc(dir, file, fault) ==
    IF fault \/ dir[Base(file)] = NoFile THEN [err |-> TRUE, contents |-> NoFile]
    ELSE [err |-> FALSE, contents |-> dir[Base(file)]]

(* ------------------------------------------------------------------ glob *)
\* filepath.Glob(filepath.Join(migrationsPath, "*.sql")): the only error is
\* ErrBadPattern; a directory that does not exist matches nothing
GlobErr(path) == path = BadPatternDir
GlobMatches(path, dir) ==
    IF path = MigrationsDir
    THEN {Join(path, n) : n \in {m \in Names : dir[m] # NoFile}}
    ELSE {}
Orders(S) ==
    {s \in [1..Cardinality(S) -> S] : \A i, j \in 1..Cardinality(S) : i # j => s[i] # s[j]}

(* --------------------------------------------------------------- helpers *)
Event(op, file) == [op |-> op, file |-> file]
FaultChoices == IF faults < MaxFaults THEN {TRUE, FALSE} ELSE {FALSE}
FaultPoints == IF faults < MaxFaults THEN {"none", "read", "query"} ELSE {"none"}
Spend(fault) == faults' = faults + (IF fault THEN 1 ELSE 0)
Now == runs

\* the call of runner r returns res to its caller
Return(r, res) ==
    /\ pc' = [pc EXCEPT ![r] = "idle"]
    /\ result' = [result EXCEPT ![r] = res]
    /\ last' = [res |-> res, fs |-> start[r].fs, path |-> start[r].path,
                at |-> IF res = "nil" THEN "" ELSE Base(files[r][idx[r]])]

(* ------------------------------------------------------------------ Init *)
InitCommon ==
    /\ fs \in [Names -> Contents \cup {NoFile}]
    /\ db = NoDb
    /\ pc = [r \in Runners |-> "idle"]
    /\ files = [r \in Runners |-> <<>>]
    /\ idx = [r \in Runners |-> 0]
    /\ contents = [r \in Runners |-> NoFile]
    /\ result = [r \in Runners |-> "none"]
    /\ log = [r \in Runners |-> <<>>]
    /\ start = [r \in Runners |-> [db |-> NoDb, fs |-> fs, path |-> "", prev |-> NoCall]]
    /\ last = NoCall
    /\ executed = [c \in Contents |-> 0]
    /\ unrecorded = [c \in Contents |-> 0]
    /\ runs = 0
    /\ edits = 0
    /\ msg = Unused /\ bot = Unused /\ report = Unused /\ llm = Unused /\ secret = Unused

\* one caller: calls of RunMigrations follow one another
Init == InitCommon /\ runners = {1} /\ faults = 0

(* --------------------------------------------------------------- actions *)
\* RunMigrations up to the loop: Glob, sort.Strings, then the bookkeeping
\* table is created with the error of applyMigration dropped
Begin(r) ==
    /\ r \in runners
    /\ pc[r] = "idle"
    /\ runs < MaxRuns
    /\ runs' = runs + 1
    /\ \E path \in Paths :
        /\ start' = [start EXCEPT ![r] =
                        [db |-> db, fs |-> fs, path |-> path, prev |-> last]]
        /\ IF GlobErr(path)
           THEN /\ pc' = pc
                /\ result' = [result EXCEPT ![r] = "ErrBadPattern"]
                /\ last' = [res |-> "ErrBadPattern", fs |-> fs, path |-> path, at |-> ""]
                /\ log' = [log EXCEPT ![r] = <<Event("globfail", "")>>]
                /\ UNCHANGED <<db, files, idx, faults>>
           ELSE \E order \in Orders(GlobMatches(path, fs)), fault \in FaultChoices :
                LET res == applyMigration(db, migrationsInitialScript, fault) IN
                /\ files' = [files EXCEPT ![r] = SortStrings(order)]
                /\ db' = res.db
                /\ Spend(fault)
                /\ idx' = [idx EXCEPT ![r] = 1]
                /\ pc' = [pc EXCEPT ![r] = "loop"]
                /\ result' = [result EXCEPT ![r] = "none"]
                /\ log' = [log EXCEPT ![r] =
                            <<Event(IF res.err THEN "createfail" ELSE "create", "")>>]
                /\ UNCHANGED last
    /\ UNCHANGED <<runners, fs, contents, executed, unrecorded, edits>>
    /\ UNCHANGED others

\* one pass of the loop head: the end of the list, or ReadFile, md5.Sum and
\* checkIfMigrationPreviouslyApplied of the next file
Loop(r) ==
    /\ r \in runners
    /\ pc[r] = "loop"
    /\ IF idx[r] > Len(files[r])
       THEN /\ Return(r, "nil")
            /\ UNCHANGED <<idx, contents, log, faults>>
       ELSE \E f \in FaultPoints :
            LET file == files[r][idx[r]]
                rd == readFileFunc(fs, file, f = "read")
                nowMd5 == Md5Hex(rd.contents)
                chk == checkIfMigrationPreviouslyApplied(db, nowMd5, f = "query")
            IN  /\ Spend(f # "none")
                /\ IF rd.err
                   THEN /\ Return(r, "ReadErr")
                        /\ log' = [log EXCEPT ![r] = Append(@, Event("readfail", Base(file)))]
                        /\ f # "query"
                        /\ UNCHANGED <<idx, contents>>
                   ELSE IF chk.err
                   THEN /\ Return(r, "QueryErr")
                        /\ log' = [log EXCEPT ![r] = Append(@, Event("queryfail", Base(file)))]
                        /\ UNCHANGED <<idx, contents>>
                   ELSE IF chk.applied
                   THEN /\ idx' = [idx EXCEPT ![r] = @ + 1]
                        /\ log' = [log EXCEPT ![r] = Append(@, Event("skip", Base(file)))]
                        /\ UNCHANGED <<pc, result, last, contents>>
                   ELSE /\ pc' = [pc EXCEPT ![r] = "apply"]
                        /\ contents' = [contents EXCEPT ![r] = rd.contents]
                        /\ log' = [log EXCEPT ![r] = Append(@, Event("miss", Base(file)))]
                        /\ UNCHANGED <<idx, result, last>>
    /\ UNCHANGED <<runners, fs, db, files, start, executed, unrecorded, runs, edits>>
    /\ UNCHANGED others

\* applyMigration with its error dropped, as for the bookkeeping statement
ApplyIgnoringError(r) ==
    /\ r \in runners
    /\ pc[r] = "apply"
    /\ \E fault \in FaultChoices :
        LET file == files[r][idx[r]]
            res == applyMigration(db, contents[r], fault)
        IN  /\ Spend(fault)
            /\ db' = res.db
            /\ pc' = [pc EXCEPT ![r] = "save"]
            /\ log' = [log EXCEPT ![r] =
                        Append(@, Event(IF res.err THEN "execfail" ELSE "exec", Base(file)))]
            /\ executed' = [executed EXCEPT ![contents[r]] = @ + (IF res.err THEN 0 ELSE 1)]
            /\ UNCHANGED <<result, last>>
    /\ UNCHANGED <<runners, fs, files, idx, contents, start, unrecorded, runs, edits>>
    /\ UNCHANGED others

\* the run as one transaction: a failed execution rolls the database back to
\* what it was as the call began
ApplyRollingBack(r) ==
    /\ r \in runners
    /\ pc[r] = "apply"
    /\ \E fault \in FaultChoices :
        LET file == files[r][idx[r]]
            res == applyMigration(db, contents[r], fault)
        IN  /\ Spend(fault)
            /\ IF res.err
               THEN /\ db' = start[r].db
                    /\ Return(r, "ExecErr")
                    /\ log' = [log EXCEPT ![r] = Append(@, Event("execfail", Base(file)))]
                    /\ UNCHANGED executed
               ELSE /\ db' = res.db
                    /\ pc' = [pc EXCEPT ![r] = "save"]
                    /\ log' = [log EXCEPT ![r] = Append(@, Event("exec", Base(file)))]
                    /\ executed' = [executed EXCEPT ![contents[r]] = @ + 1]
                    /\ UNCHANGED <<result, last>>
    /\ UNCHANGED <<runners, fs, files, idx, contents, start, unrecorded, runs, edits>>
    /\ UNCHANGED others

\* err = db.applyMigration(string(contents)); on an error the call returns it
Apply(r) ==
    /\ r \in runners
    /\ pc[r] = "apply"
    /\ \E fault \in FaultChoices :
        LET file == files[r][idx[r]]
            res == applyMigration(db, contents[r], fault)
        IN  /\ Spend(fault)
            /\ db' = res.db
            /\ IF res.err
               THEN /\ Return(r, "ExecErr")
                    /\ log' = [log EXCEPT ![r] = Append(@, Event("execfail", Base(file)))]
                    /\ UNCHANGED executed
               ELSE /\ pc' = [pc EXCEPT ![r] = "save"]
                    /\ log' = [log EXCEPT ![r] = Append(@, Event("exec", Base(file)))]
                    /\ executed' = [executed EXCEPT ![contents[r]] = @ + 1]
                    /\ UNCHANGED <<result, last>>
    /\ UNCHANGED <<runners, fs, files, idx, contents, start, unrecorded, runs, edits>>
    /\ UNCHANGED others

\* the error of saveMigrationInfo logged and the loop continued
SaveIgnoringError(r) ==
    /\ r \in runners
    /\ pc[r] = "save"
    /\ \E fault \in FaultChoices :
        LET file == files[r][idx[r]]
            res == saveMigrationInfo(db, Base(file), Md5Hex(contents[r]), Now, fault)
        IN  /\ Spend(fault)
            /\ db' = res.db
            /\ pc' = [pc EXCEPT ![r] = "loop"]
            /\ idx' = [idx EXCEPT ![r] = @ + 1]
            /\ log' = [log EXCEPT ![r] =
                        Append(@, Event(IF res.err THEN "savefail" ELSE "save", Base(file)))]
            /\ unrecorded' = [unrecorded EXCEPT ![contents[r]] = @ + (IF res.err THEN 1 ELSE 0)]
            /\ UNCHANGED <<result, last>>
    /\ UNCHANGED <<runners, fs, files, contents, start, executed, runs, edits>>
    /\ UNCHANGED others

\* err = db.saveMigrationInfo(fileName, nowMd5); on an error the call returns it
Save(r) ==
    /\ r \in runners
    /\ pc[r] = "save"
    /\ \E fault \in FaultChoices :
        LET file == files[r][idx[r]]
            res == saveMigrationInfo(db, Base(file), Md5Hex(contents[r]), Now, fault)
        IN  /\ Spend(fault)
            /\ db' = res.db
            /\ IF res.err
               THEN /\ Return(r, "InsertErr")
                    /\ log' = [log EXCEPT ![r] = Append(@, Event("savefail", Base(file)))]
                    /\ unrecorded' = [unrecorded EXCEPT ![contents[r]] = @ + 1]
                    /\ UNCHANGED idx
               ELSE /\ pc' = [pc EXCEPT ![r] = "loop"]
                    /\ idx' = [idx EXCEPT ![r] = @ + 1]
                    /\ log' = [log EXCEPT ![r] = Append(@, Event("save", Base(file)))]
                    /\ UNCHANGED <<result, last, unrecorded>>
    /\ UNCHANGED <<runners, fs, files, contents, start, executed, runs, edits>>
    /\ UNCHANGED others

\* between calls somebody writes or removes a file of the migrations
\* directory (before the first call every directory is an initial state, and
\* a change after the last call is seen by no call)
Edit ==
    /\ \A r \in runners : pc[r] = "idle"
    /\ edits < MaxEdits
    /\ 0 < runs /\ runs < MaxRuns
    /\ edits' = edits + 1
    /\ \E n \in Names, c \in Contents \cup {NoFile} :
        /\ fs[n] # c
        /\ fs' = [fs EXCEPT ![n] = c]
    /\ UNCHANGED <<runners, db, pc, files, idx, contents, result, log, start, last,
                   executed, unrecorded, runs, faults>>
    /\ UNCHANGED others

Next ==
    \/ \E r \in Runners : Begin(r)
    \/ \E r \in Runners : Loop(r)
    \/ \E r \in Runners : Apply(r)
    \/ \E r \in Runners : Save(r)
    \/ Edit

Spec == Init /\ [][Next]_vars

\* two callers: two calls of RunMigrations may run at a time on one database
\* (two goroutines or two processes); no I/O failure is injected here, the
\* only failures are the ones the statements themselves produce
InitConc == InitCommon /\ runners = {1, 2} /\ faults = MaxFaults
SpecConc == InitConc /\ [][Next]_vars

\* either of the two
InitAny == Init \/ InitConc
SpecAny == InitAny /\ [][Next]_vars

(* ------------------------------------------------- RunMigrationsFromEmbed *)
\* an embed.FS: the files compiled into the binary.  Here fs maps the path
\* of an embedded file to its contents, or NoFile when the file was not
\* embedded; a directory exists when a file below it was embedded
Root == "."
SeedsDir == "seeds"
EmbedDirs == {MigrationsDir, SeedsDir}
NotesTxt == "notes.txt"
EmbedPaths ==
    {<<Root, "0.sql">>, <<MigrationsDir, "0.sql">>, <<MigrationsDir, "1.sql">>,
     <<MigrationsDir, NotesTxt>>, <<SeedsDir, "1.sql">>}

\* filepath.Ext: the suffix of the name that starts at its last dot
RECURSIVE ExtBytes(_)
ExtBytes(b) ==
    IF b = <<>> THEN <<>>
    ELSE IF b[Len(b)] = 46 THEN <<46>>
    ELSE LET e == ExtBytes(SubSeq(b, 1, Len(b) - 1)) IN
         IF e = <<>> THEN <<>> ELSE Append(e, b[Len(b)])
Ext(name) == ExtBytes(Bytes(name))
SqlExt == <<46, 115, 113, 108>>

\* embedFS.ReadDir(dir): the entries of the directory sorted by file name
DirEntry(name, isDir) == [name |-> name, isDir |-> isDir]
EntriesOf(tree, dir) ==
    {DirEntry(p[2], FALSE) : p \in {q \in EmbedPaths : q[1] = dir /\ tree[q] # NoFile}}
      \cup (IF dir = Root
            THEN {DirEntry(d, TRUE) :
                    d \in {e \in EmbedDirs :
                             \E q \in EmbedPaths : q[1] = e /\ tree[q] # NoFile}}
            ELSE {})
ReadDir(tree, dir) ==
    CHOOSE s \in Orders(EntriesOf(tree, dir)) :
        \A i, j \in 1..Len(s) : i < j => BytesLess(Bytes(s[i].name), Bytes(s[j].name))

\* the loop over rootFiles: the .sql files of the first directory among the
\* root entries, in the order ReadDir gave them; the break leaves the loop
\* after that directory
IsSqlEntry(e) == ~e.isDir /\ Ext(e.name) = SqlExt
RECURSIVE JoinAll(_, _)
JoinAll(dir, es) ==
    IF es = <<>> THEN <<>> ELSE <<Join(dir, Head(es).name)>> \o JoinAll(dir, Tail(es))
RECURSIVE CollectSqlFiles(_, _)
CollectSqlFiles(tree, rootFiles) ==
    IF rootFiles = <<>> THEN <<>>
    ELSE IF Head(rootFiles).isDir
    THEN JoinAll(Head(rootFiles).name,
                 SelectSeq(ReadDir(tree, Head(rootFiles).name), IsSqlEntry))
    ELSE CollectSqlFiles(tree, Tail(rootFiles))

\* embedFS.ReadFile(file)
embedReadFile(tree, file) ==
    IF tree[file] = NoFile THEN [err |-> TRUE, contents |-> NoFile]
    ELSE [err |-> FALSE, contents |-> tree[file]]

EmbedSource == "embed.FS"

\* RunMigrationsFromEmbed up to the loop of runMigrationsCommon: ReadDir of
\* the root, the files of the first directory, sort.Strings, then the
\* bookkeeping table is created with the error of applyMigration dropped
BeginEmbed(r) ==
    /\ r \in runners
    /\ pc[r] = "idle"
    /\ runs < MaxRuns
    /\ runs' = runs + 1
    /\ start' = [start EXCEPT ![r] =
                    [db |-> db, fs |-> fs, path |-> EmbedSource, prev |-> last]]
    /\ \E fault \in FaultChoices :
        LET res == applyMigration(db, migrationsInitialScript, fault)
            sqlFiles == CollectSqlFiles(fs, ReadDir(fs, Root))
        IN  /\ files' = [files EXCEPT ![r] = SortStrings(sqlFiles)]
            /\ db' = res.db
            /\ Spend(fault)
            /\ idx' = [idx EXCEPT ![r] = 1]
            /\ pc' = [pc EXCEPT ![r] = "loop"]
            /\ result' = [result EXCEPT ![r] = "none"]
            /\ log' = [log EXCEPT ![r] =
                        <<Event(IF res.err THEN "createfail" ELSE "create", "")>>]
    /\ UNCHANGED <<runners, fs, contents, executed, unrecorded, edits, last>>
    /\ UNCHANGED others

\* one pass of the loop head with readFileFunc = embedFS.ReadFile, which
\* reads from memory and does not fail for a file ReadDir listed
LoopEmbed(r) ==
    /\ r \in runners
    /\ pc[r] = "loop"
    /\ IF idx[r] > Len(files[r])
       THEN /\ Return(r, "nil")
            /\ UNCHANGED <<idx, contents, log, faults>>
       ELSE \E f \in FaultPoints \ {"read"} :
            LET file == files[r][idx[r]]
                rd == embedReadFile(fs, file)
                nowMd5 == Md5Hex(rd.contents)
                chk == checkIfMigrationPreviouslyApplied(db, nowMd5, f = "query")
            IN  /\ Spend(f # "none")
                /\ IF rd.err
                   THEN /\ Return(r, "ReadErr")
                        /\ log' = [log EXCEPT ![r] = Append(@, Event("readfail", Base(file)))]
                        /\ UNCHANGED <<idx, contents>>
                   ELSE IF chk.err
                   THEN /\ Return(r, "QueryErr")
                        /\ log' = [log EXCEPT ![r] = Append(@, Event("queryfail", Base(file)))]
                        /\ UNCHANGED <<idx, contents>>
                   ELSE IF chk.applied
                   THEN /\ idx' = [idx EXCEPT ![r] = @ + 1]
                        /\ log' = [log EXCEPT ![r] = Append(@, Event("skip", Base(file)))]
                        /\ UNCHANGED <<pc, result, last, contents>>
                   ELSE /\ pc' = [pc EXCEPT ![r] = "apply"]
                        /\ contents' = [contents EXCEPT ![r] = rd.contents]
                        /\ log' = [log EXCEPT ![r] = Append(@, Event("miss", Base(file)))]
                        /\ UNCHANGED <<idx, result, last>>
    /\ UNCHANGED <<runners, fs, db, files, start, executed, unrecorded, runs, edits>>
    /\ UNCHANGED others

InitEmbed ==
    /\ fs \in [EmbedPaths -> Contents \cup {NoFile}]
    /\ db = NoDb
    /\ pc = [r \in Runners |-> "idle"]
    /\ files = [r \in Runners |-> <<>>]
    /\ idx = [r \in Runners |-> 0]
    /\ contents = [r \in Runners |-> NoFile]
    /\ result = [r \in Runners |-> "none"]
    /\ log = [r \in Runners |-> <<>>]
    /\ start = [r \in Runners |-> [db |-> NoDb, fs |-> fs, path |-> "", prev |-> NoCall]]
    /\ last = NoCall
    /\ executed = [c \in Contents |-> 0]
    /\ unrecorded = [c \in Contents |-> 0]
    /\ runs = 0
    /\ edits = 0
    /\ runners = {1} /\ faults = 0
    /\ msg = Unused /\ bot = Unused /\ report = Unused /\ llm = Unused /\ secret = Unused

NextEmbed ==
    \/ \E r \in Runners : BeginEmbed(r)
    \/ \E r \in Runners : LoopEmbed(r)
    \/ \E r \in Runners : Apply(r)
    \/ \E r \in Runners : Save(r)

SpecEmbed == InitEmbed /\ [][NextEmbed]_vars

(* ------------------------------------------------- vocabulary of the claims *)
BookErrors == {"ErrBadPattern", "ReadErr", "QueryErr", "ExecErr", "InsertErr"}
Returned(r) == pc[r] = "idle" /\ result[r] # "none"
Succeeded(r) == pc[r] = "idle" /\ result[r] = "nil"
NameLess(a, b) == BytesLess(Bytes(a), Bytes(b))

\* the files and the content hashes of the source the call of r ran on
SourceNames(r) ==
    IF start[r].path = MigrationsDir
    THEN {n \in Names : start[r].fs[n] # NoFile} ELSE {}
SourceHashes(r) == {Md5Hex(start[r].fs[n]) : n \in SourceNames(r)}
RecordsWith(rows, h) == {i \in 1..Len(rows) : rows[i].md5 = h}
Ops(r, ops) == {i \in 1..Len(log[r]) : log[r][i].op \in ops}

\* the call of r came right after a successful call on the same source
SecondCall(r) ==
    /\ start[r].prev.res = "nil"
    /\ start[r].prev.fs = start[r].fs
    /\ start[r].prev.path = start[r].path

(* C1: after a successful call the bookkeeping table holds exactly one record
   per content hash of the source; a successful call that follows a successful
   call on the same source executes nothing, inserts nothing and leaves the
   records and table t as they were. *)
C1_Idempotence ==
    \A r \in runners : Succeeded(r) =>
        /\ \A h \in SourceHashes(r) : Cardinality(RecordsWith(db.rows, h)) = 1
        /\ SecondCall(r) =>
              /\ Ops(r, {"exec", "execfail", "save", "savefail"}) = {}
              /\ db.rows = start[r].db.rows
              /\ db.t = start[r].db.t

C1_Witness ==
    \E r \in runners :
        /\ Succeeded(r) /\ SecondCall(r)
        /\ Cardinality(SourceHashes(r)) = 2
        /\ Cardinality(Ops(r, {"skip"})) = 2

(* C2: within one call the migrations are executed in ascending byte-wise
   order of their names: of two executions, the earlier one is of the smaller
   name. *)
C2_Order ==
    \A r \in runners : \A i, j \in Ops(r, {"exec", "execfail"}) :
        i < j => NameLess(log[r][i].file, log[r][j].file)

C2_Witness ==
    \E r \in runners : \E i, j \in Ops(r, {"exec"}) :
        i < j /\ log[r][i].file = "0.sql" /\ log[r][j].file = "1.sql"

(* C3, as stated: no migration content is executed more than once over all
   calls, and after a successful call every migration of the source has been
   executed. *)
C3_ExactlyOnce ==
    /\ \A c \in Contents : executed[c] <= 1
    /\ \A r \in runners : Succeeded(r) =>
          \A n \in SourceNames(r) : executed[start[r].fs[n]] >= 1

(* C3, amended: a content is executed again only after an insert of its
   record failed: it has at most one successful execution more than failed
   inserts, a content whose record is in the table has exactly that many, and
   after a successful call every migration of the source has been executed. *)
C3_OnceUnlessUnrecorded ==
    /\ \A c \in Contents :
          /\ executed[c] <= 1 + unrecorded[c]
          /\ RecordsWith(db.rows, Md5Hex(c)) # {} => executed[c] = 1 + unrecorded[c]
    /\ \A r \in runners : Succeeded(r) =>
          \A n \in SourceNames(r) : executed[start[r].fs[n]] >= 1

C3_Witness ==
    \E c \in Contents :
        /\ executed[c] = 2 /\ unrecorded[c] = 1
        /\ RecordsWith(db.rows, Md5Hex(c)) # {}
        /\ \E r \in runners : Succeeded(r)

\* the pairs of files of the call of r that have the same content, and the
\* first file, in name order, that has content c
Twins(r) ==
    {p \in SourceNames(r) \X SourceNames(r) :
        NameLess(p[1], p[2]) /\ start[r].fs[p[1]] = start[r].fs[p[2]]}
FirstWith(r, c) ==
    CHOOSE n \in SourceNames(r) :
        /\ start[r].fs[n] = c
        /\ \A m \in SourceNames(r) : start[r].fs[m] = c => (m = n \/ NameLess(n, m))

(* C4: of two files of one call with the same content only the one with the
   smaller name is ever executed or recorded; the other one is skipped, and it
   is skipped after the first one was executed when no record of the content
   existed as the call began; the table never holds two records of the
   content. *)
C4_ContentDedup ==
    \A r \in runners : \A p \in Twins(r) :
        LET c == start[r].fs[p[2]] IN
        /\ \A i \in 1..Len(log[r]) :
              log[r][i].file = p[2] => log[r][i].op \in {"skip", "readfail", "queryfail"}
        /\ \A j \in Ops(r, {"skip"}) :
              (log[r][j].file = p[2] /\ RecordsWith(start[r].db.rows, Md5Hex(c)) = {}) =>
                  \E i \in Ops(r, {"exec"}) : i < j /\ log[r][i].file = FirstWith(r, c)
        /\ Cardinality(RecordsWith(db.rows, Md5Hex(c))) <= 1

C4_Witness ==
    \E r \in runners : \E p \in Twins(r) :
        /\ \E i \in Ops(r, {"exec"}) : log[r][i].file = p[1]
        /\ \E j \in Ops(r, {"skip"}) : log[r][j].file = p[2]
        /\ Succeeded(r)

(* C5: a failed execution is the last thing its call does: the call returns
   that failure, and nothing is read, looked up, executed or recorded after
   it. *)
C5_FailureStops ==
    \A r \in runners : \A i \in Ops(r, {"execfail"}) :
        /\ i = Len(log[r])
        /\ pc[r] = "idle"
        /\ result[r] = "ExecErr"

C5_Witness ==
    \E r \in runners :
        /\ Ops(r, {"execfail"}) # {}
        /\ idx[r] < Len(files[r])
        /\ result[r] = "ExecErr"

(* C6, as stated: a failure to create the bookkeeping table, to query it or to
   insert into it is the last thing its call does, and the call returns a
   failure. *)
C6_BookkeepingFatal ==
    \A r \in runners : \A i \in Ops(r, {"createfail", "queryfail", "savefail"}) :
        /\ i = Len(log[r])
        /\ pc[r] = "idle" => result[r] \in BookErrors

(* C7, as stated: when the source cannot produce its list (the path does not
   exist or is no pattern, a file cannot be read) the call returns an error
   and has executed and recorded nothing. *)
C7_SourceErrorFatal ==
    \A r \in runners :
        (log[r] # <<>> /\ (start[r].path # MigrationsDir \/ Ops(r, {"readfail"}) # {})) =>
            /\ pc[r] = "idle" => result[r] \in BookErrors
            /\ Ops(r, {"exec", "execfail", "save", "savefail"}) = {}

\* the call of r matched no file and its bookkeeping statement was executed
EmptySource(r) ==
    /\ log[r] # <<>> /\ log[r][1].op = "create"
    /\ GlobMatches(start[r].path, start[r].fs) = {}

(* C9: a call on an empty source whose bookkeeping statement ran leaves the
   bookkeeping table created, executes nothing, inserts nothing and returns
   success. *)
C9_EmptySource ==
    \A r \in runners : EmptySource(r) =>
        /\ db.created
        /\ log[r] = <<Event("create", "")>>
        /\ db.rows = start[r].db.rows /\ db.t = start[r].db.t
        /\ pc[r] = "idle" => result[r] = "nil"
        /\ pc[r] \in {"idle", "loop"}

C9_Witness ==
    \E r \in runners :
        /\ EmptySource(r) /\ Succeeded(r)
        /\ ~start[r].db.created /\ db.created

\* the source 0.sql = CREATE TABLE t, 1.sql = INSERT ('foo', 42), run twice on
\* a fresh database; what both statements of the scenario agree on
Scenario ==
    [n \in Names |-> CASE n = "0.sql" -> CreateT [] n = "1.sql" -> InsertFoo
                       [] OTHER -> NoFile]
FirstRun(r) ==
    /\ Succeeded(r) /\ runs = 1
    /\ start[r].fs = Scenario /\ start[r].path = MigrationsDir
SecondRun(r) ==
    /\ Succeeded(r) /\ runs = 2
    /\ start[r].fs = Scenario /\ start[r].path = MigrationsDir
    /\ SecondCall(r)
ScenarioRows(r) ==
    /\ FirstRun(r) =>
          /\ db.t = [exists |-> TRUE, foo |-> 1]
          /\ executed = [c \in Contents |-> 1]
    /\ SecondRun(r) => db.t = [exists |-> TRUE, foo |-> 1]

(* C10, as stated: in the scenario both migrations are applied by the first
   call and t has one row; after the second call t still has one row and the
   bookkeeping table has exactly 3 rows. *)
C10_ThreeRows ==
    \A r \in runners : ScenarioRows(r) /\ (SecondRun(r) => Len(db.rows) = 3)

(* C10, amended: in the scenario both migrations are applied by the first
   call and t has one row; after the second call t still has one row and the
   bookkeeping table has exactly 2 rows, the ones the first call wrote. *)
C10_TwoRows ==
    \A r \in runners :
        /\ ScenarioRows(r)
        /\ (FirstRun(r) \/ SecondRun(r)) =>
              /\ Len(db.rows) = 2
              /\ {db.rows[i].file : i \in 1..2} = {"0.sql", "1.sql"}
        /\ SecondRun(r) => db.rows = start[r].db.rows

C10_Witness == \E r \in runners : SecondRun(r)

(* C8: no two records of the bookkeeping table have the same content hash,
   whatever calls ran, one at a time or two at once, on whatever sources. *)
C8_UniqueHash ==
    \A i, j \in 1..Len(db.rows) : i # j => db.rows[i].md5 # db.rows[j].md5

\* two records share a file name
C8_Witness ==
    \E i, j \in 1..Len(db.rows) :
        i # j /\ db.rows[i].file = db.rows[j].file /\ db.rows[i].md5 # db.rows[j].md5

\* the call of r came right after a call on the same source that returned the
\* error of an execution or of an insert, met at file start[r].prev.at
ReRun(r) ==
    /\ start[r].prev.res \in {"ExecErr", "InsertErr"}
    /\ start[r].prev.fs = start[r].fs
    /\ start[r].prev.path = start[r].path
HashOf(r, n) == Md5Hex(start[r].fs[n])

(* C11: in a call that follows a failed call on the same source no content
   that had a record as the call began is executed again; the file the failed
   call stopped at is not skipped but looked up and executed, nothing before
   it in name order is executed, and when the call succeeds that file and
   every file after it has been executed in it or had a record already. *)
C11_ReRunSafe ==
    \A r \in runners : ReRun(r) =>
        LET f == start[r].prev.at IN
        /\ \A i \in Ops(r, {"exec", "execfail"}) :
              /\ RecordsWith(start[r].db.rows, HashOf(r, log[r][i].file)) = {}
              /\ ~NameLess(log[r][i].file, f)
        /\ \A i \in Ops(r, {"skip"}) : log[r][i].file # f
        /\ Succeeded(r) =>
              /\ \E i \in Ops(r, {"exec"}) : log[r][i].file = f
              /\ \A n \in SourceNames(r) : NameLess(f, n) =>
                    \/ \E i \in Ops(r, {"exec"}) : log[r][i].file = n
                    \/ RecordsWith(start[r].db.rows, HashOf(r, n)) # {}
                    \/ HashOf(r, n) = HashOf(r, f)

C11_Witness ==
    \E r \in runners :
        /\ ReRun(r) /\ Succeeded(r)
        /\ start[r].prev.at = "1.sql"
        /\ \E i \in Ops(r, {"skip"}) : log[r][i].file = "0.sql"
        /\ \E i \in Ops(r, {"exec"}) : log[r][i].file = "1.sql"

\* file n of the call of r was applied before under the same name with another
\* content; its present content has no record as the call begins and is not
\* the content of a file earlier in the call
Changed(r, n) ==
    /\ n \in SourceNames(r)
    /\ \E i \in 1..Len(start[r].db.rows) :
          start[r].db.rows[i].file = n /\ start[r].db.rows[i].md5 # HashOf(r, n)
NewContent(r, n) ==
    /\ RecordsWith(start[r].db.rows, HashOf(r, n)) = {}
    /\ \A m \in SourceNames(r) : NameLess(m, n) => start[r].fs[m] # start[r].fs[n]
TreatedAsNew(r, n) ==
    /\ \E i \in Ops(r, {"exec"}) : log[r][i].file = n
    /\ \E i \in 1..Len(db.rows) : db.rows[i].file = n /\ db.rows[i].md5 = HashOf(r, n)
    /\ SubSeq(db.rows, 1, Len(start[r].db.rows)) = start[r].db.rows

(* C12, as stated: when the content of an applied migration changed and its
   name did not, the next successful call executes the new content, inserts a
   record of the same name with the new hash and keeps the old record. *)
C12_ChangedIsNew ==
    \A r \in runners : \A n \in Names :
        (Succeeded(r) /\ Changed(r, n)) => TreatedAsNew(r, n)

(* C12, amended: the same, provided the new content has no record yet and is
   not the content of a file earlier in the call; otherwise the file is
   skipped as a duplicate.  In no case is an old record changed or removed. *)
C12_ChangedAndUnseenIsNew ==
    \A r \in runners : \A n \in Names :
        /\ (Succeeded(r) /\ Changed(r, n) /\ NewContent(r, n)) => TreatedAsNew(r, n)
        /\ (Changed(r, n) /\ NewContent(r, n)) =>
              \A i \in Ops(r, {"skip"}) : log[r][i].file # n
        /\ (Succeeded(r) /\ Changed(r, n) /\ ~NewContent(r, n)) =>
              /\ \A i \in 1..Len(log[r]) : log[r][i].file = n => log[r][i].op = "skip"
              /\ SubSeq(db.rows, 1, Len(start[r].db.rows)) = start[r].db.rows

C12_Witness ==
    \E r \in runners : \E n \in Names :
        Succeeded(r) /\ Changed(r, n) /\ NewContent(r, n) /\ TreatedAsNew(r, n)

\* the records the save events of the call of r stand for, in order
RECURSIVE SavedRows(_, _)
SavedRows(r, i) ==
    IF i > Len(log[r]) THEN <<>>
    ELSE IF log[r][i].op = "save"
    THEN <<[file |-> log[r][i].file, md5 |-> HashOf(r, log[r][i].file)]>> \o SavedRows(r, i + 1)
    ELSE SavedRows(r, i + 1)
NameAndHash(rows) == [i \in 1..Len(rows) |-> [file |-> rows[i].file, md5 |-> rows[i].md5]]
ExecutedIn(r, c) ==
    Cardinality({i \in Ops(r, {"exec"}) : start[r].fs[log[r][i].file] = c})
FailedExec(r) == pc[r] = "idle" /\ result[r] = "ExecErr"

(* C21: when a call has returned the error of an execution, the records of
   the migrations it applied before are in the table after the records that
   were there as it began, what those migrations did to table t stands, and
   there is no record for the content whose execution failed. *)
C21_NoRollback ==
    \A r \in runners : FailedExec(r) =>
        LET f == log[r][Len(log[r])].file IN
        /\ log[r][Len(log[r])].op = "execfail"
        /\ SubSeq(db.rows, 1, Len(start[r].db.rows)) = start[r].db.rows
        /\ NameAndHash(SubSeq(db.rows, Len(start[r].db.rows) + 1, Len(db.rows)))
              = SavedRows(r, 1)
        /\ db.t.exists = (start[r].db.t.exists \/ ExecutedIn(r, CreateT) > 0)
        /\ db.t.foo = start[r].db.t.foo + ExecutedIn(r, InsertFoo)
        /\ RecordsWith(db.rows, HashOf(r, f)) = {}

\* 0.sql was applied and recorded in the call in which 1.sql failed
C21_Witness ==
    \E r \in runners :
        /\ FailedExec(r)
        /\ log[r][Len(log[r])] = Event("execfail", "1.sql")
        /\ \E i \in Ops(r, {"save"}) : log[r][i].file = "0.sql"
        /\ db.t.exists
        /\ Len(db.rows) = 1

\* the call of r follows a call on the same source that returned the error of
\* an insert
AfterFailedInsert(r) == ReRun(r) /\ start[r].prev.res = "InsertErr"

(* C22: a failed insert ends the call: it comes directly after the successful
   execution of the same file, is the last thing the call does, the call
   returns the insert error and the content has no record; the next call on
   the same source does not skip that file, and unless a read or a lookup
   fails it executes the content again. *)
C22_InsertFailure ==
    \A r \in runners :
        /\ \A i \in Ops(r, {"savefail"}) :
              /\ i = Len(log[r])
              /\ pc[r] = "idle" /\ result[r] = "InsertErr"
              /\ log[r][i - 1] = Event("exec", log[r][i].file)
              /\ RecordsWith(db.rows, HashOf(r, log[r][i].file)) = {}
              /\ executed[start[r].fs[log[r][i].file]] > 0
        /\ AfterFailedInsert(r) =>
              LET f == start[r].prev.at IN
              /\ RecordsWith(start[r].db.rows, HashOf(r, f)) = {}
              /\ \A i \in Ops(r, {"skip"}) : log[r][i].file # f
              /\ (Returned(r) /\ result[r] \notin {"ReadErr", "QueryErr"}) =>
                    \E i \in Ops(r, {"exec", "execfail"}) : log[r][i].file = f

\* the insert of the record of INSERT INTO t failed, and the next call
\* executed the statement a second time
C22_Witness ==
    \E r \in runners :
        /\ AfterFailedInsert(r)
        /\ Succeeded(r)
        /\ start[r].fs[start[r].prev.at] = InsertFoo
        /\ start[r].db.t.foo = 1
        /\ db.t.foo = 2
        /\ executed[InsertFoo] = 2

IsPrefixOf(p, q) == Len(p) <= Len(q) /\ SubSeq(q, 1, Len(p)) = p

(* C23: no step of a runner changes or removes a record: the records before
   the step are, unchanged and in place, the first records after it. *)
C23_RecordsOnlyGrow == [][IsPrefixOf(db.rows, db'.rows)]_vars

\* a call that failed after it added a record to the record an earlier call
\* had left
C23_Witness ==
    \E r \in runners :
        /\ Returned(r) /\ result[r] # "nil"
        /\ Len(start[r].db.rows) = 1
        /\ Len(db.rows) = 2
        /\ db.rows[1] = start[r].db.rows[1]
        /\ db.rows[1].applied_at < db.rows[2].applied_at

\* the runners that executed content c and have not yet issued its insert
AboutToSave(c) == {r \in runners : pc[r] = "save" /\ contents[r] = c}

(* C24: with two runners on one database the table never holds two records
   of one hash; every successful execution of a content either has the one
   record of its hash, is followed by an insert that failed, or still waits
   for its insert; and a failed insert ends the call of the runner that lost
   with the insert error. *)
C24_LoserFails ==
    /\ \A i, j \in 1..Len(db.rows) : db.rows[i].md5 = db.rows[j].md5 => i = j
    /\ \A c \in Contents :
          executed[c] = Cardinality(RecordsWith(db.rows, Md5Hex(c)))
                          + unrecorded[c] + Cardinality(AboutToSave(c))
    /\ \A r \in runners : \A i \in Ops(r, {"savefail"}) :
          /\ i = Len(log[r])
          /\ pc[r] = "idle" /\ result[r] = "InsertErr"
          /\ RecordsWith(db.rows, HashOf(r, log[r][i].file)) # {}

\* both runners found INSERT INTO t not applied and executed it; one insert
\* succeeded, the other runner got the insert error
C24_Witness ==
    /\ runners = {1, 2}
    /\ executed[InsertFoo] = 2
    /\ db.t.foo = 2
    /\ Cardinality(RecordsWith(db.rows, Md5Hex(InsertFoo))) = 1
    /\ \E r, q \in runners :
          /\ r # q
          /\ Succeeded(r)
          /\ pc[q] = "idle" /\ result[q] = "InsertErr"
          /\ \E i \in Ops(q, {"miss"}) : start[q].fs[log[q][i].file] = InsertFoo

\* the .sql files of an embedded tree, at the root and in the directories
AllSqlFiles(tree) == {p \in EmbedPaths : tree[p] # NoFile /\ Ext(p[2]) = SqlExt}
EmbedPathBytes(file) == IF file[1] = Root THEN Bytes(file[2]) ELSE PathBytes(file)

(* C25: the files RunMigrationsFromEmbed hands to the runner are all the
   files with extension .sql of the embedded tree, the ones at the root and
   the ones in a first-level directory, sorted by name. *)
C25_AllSqlFilesSorted ==
    \A r \in runners : log[r] # <<>> =>
        /\ {files[r][i] : i \in 1..Len(files[r])} = AllSqlFiles(fs)
        /\ \A i, j \in 1..Len(files[r]) :
              i < j => BytesLess(EmbedPathBytes(files[r][i]), EmbedPathBytes(files[r][j]))

\* the events of a call that are an error, and the error each one produced
FailOps == {"globfail", "createfail", "readfail", "queryfail", "execfail", "savefail"}
ErrorOf(op) ==
    CASE op = "globfail" -> "ErrBadPattern"
      [] op = "createfail" -> "CreateErr"
      [] op = "readfail" -> "ReadErr"
      [] op = "queryfail" -> "QueryErr"
      [] op = "execfail" -> "ExecErr"
      [] op = "savefail" -> "InsertErr"
\* the events that begin the visit of a file of the list
VisitOps == {"skip", "miss", "readfail", "queryfail"}
Processed(r, n) == \E i \in Ops(r, {"skip", "save"}) : log[r][i].file = n
FirstError(r) == CHOOSE i \in Ops(r, FailOps) : \A j \in Ops(r, FailOps) : i <= j

(* C26: a call visits each file of its sorted list at most once; when it has
   returned, it returned nil exactly when every file of the list was skipped
   or applied and recorded, and otherwise it returned the first error that
   occurred in the call. *)
C26_FirstErrorReturned ==
    \A r \in runners :
        /\ \A i, j \in Ops(r, VisitOps) : log[r][i].file = log[r][j].file => i = j
        /\ Returned(r) =>
              /\ result[r] = "nil" <=>
                    /\ Ops(r, {"globfail"}) = {}
                    /\ \A k \in 1..Len(files[r]) : Processed(r, Base(files[r][k]))
              /\ result[r] # "nil" =>
                    /\ Ops(r, FailOps) # {}
                    /\ result[r] = ErrorOf(log[r][FirstError(r)].op)

(* C27: a record with hash h is in the table only when a content with hash h
   has been executed successfully before, and in every call each insert,
   successful or failed, comes directly after the successful execution of
   the content of the same file: no other step of the call lies between. *)
C27_ApplyPrecedesRecord ==
    /\ \A i \in 1..Len(db.rows) :
          \E c \in Contents : Md5Hex(c) = db.rows[i].md5 /\ executed[c] >= 1
    /\ \A r \in runners :
          /\ \A i \in Ops(r, {"save", "savefail"}) :
                i > 1 /\ log[r][i - 1] = Event("exec", log[r][i].file)
          /\ pc[r] = "save" =>
                /\ log[r][Len(log[r])].op = "exec"
                /\ executed[contents[r]] >= 1

\* a call that executed and recorded two migrations, one after the other
C27_Witness ==
    \E r \in runners :
        /\ Succeeded(r)
        /\ Len(log[r]) = 7
        /\ log[r][3] = Event("exec", "0.sql") /\ log[r][4] = Event("save", "0.sql")
        /\ log[r][6] = Event("exec", "1.sql") /\ log[r][7] = Event("save", "1.sql")
        /\ Len(db.rows) = 2

(***************************************************************************)
(* The other packages.  Each has a specification of its own in which the   *)
(* sqldb variables keep the values below: no runner, no migration file.    *)
(***************************************************************************)
sqldbVars == <<runners, fs, db, pc, files, idx, contents, result, log, start, last,
               executed, unrecorded, runs, faults, edits>>
SqldbUnused ==
    /\ runners = {}
    /\ fs = [n \in Names |-> NoFile]
    /\ db = NoDb
    /\ pc = [r \in Runners |-> "idle"]
    /\ files = [r \in Runners |-> <<>>]
    /\ idx = [r \in Runners |-> 0]
    /\ contents = [r \in Runners |-> NoFile]
    /\ result = [r \in Runners |-> "none"]
    /\ log = [r \in Runners |-> <<>>]
    /\ start = [r \in Runners |-> [db |-> NoDb, fs |-> fs, path |-> "", prev |-> NoCall]]
    /\ last = NoCall
    /\ executed = [c \in Contents |-> 0]
    /\ unrecorded = [c \in Contents |-> 0]
    /\ runs = 0
    /\ faults = 0
    /\ edits = 0

(***************************************************************************)
(* telegram: Message.IsCommand, Message.Command, Message.CommandArguments. *)
(* A Go string is a sequence of bytes; the texts here are sequences of     *)
(* one-byte characters, so a byte index is a character index.              *)
(***************************************************************************)
MaxText == 4
Slash == "/"
At == "@"
Space == " "
Letter == "a"
TextChars == {Slash, At, Space, Letter}
RECURSIVE SeqsUpTo(_, _)
SeqsUpTo(S, n) ==
    IF n = 0 THEN {<<>>}
    ELSE LET shorter == SeqsUpTo(S, n - 1)
         IN shorter \cup {Append(t, c) : t \in {u \in shorter : Len(u) = n - 1}, c \in S}
Texts == SeqsUpTo(TextChars, MaxText)

\* MessageEntity: Type, Offset and Length as the Bot API sends them
EntityTypes == {"bot_command", "mention"}
Entity == [Type : EntityTypes, Offset : {0, 1}, Length : 0..(MaxText + 1)]
LaterEntities ==
    {<<>>, <<[Type |-> "bot_command", Offset |-> 1, Length |-> 1]>>,
           <<[Type |-> "mention", Offset |-> 0, Length |-> 1]>>}
EntityLists == {<<>>} \cup {<<e>> \o l : e \in Entity, l \in LaterEntities}
\* a *Message: the nil pointer, or a message with its Text and Entities
Nil == [nil |-> TRUE, Text |-> <<>>, Entities |-> <<>>]
Messages == {Nil} \cup [nil : {FALSE}, Text : Texts, Entities : EntityLists]

\* s[from:] and s[:to] of Go, with Go's indices (from 0)
SliceFrom(s, from) == SubSeq(s, from + 1, Len(s))
SliceTo(s, to) == SubSeq(s, 1, to)
\* strings.Index(s, c) for a one-byte c: index of its first occurrence, or -1
IndexNone(s, c) == -1
Index(s, c) ==
    IF \E i \in 1..Len(s) : s[i] = c
    THEN (CHOOSE i \in 1..Len(s) : s[i] = c /\ \A j \in 1..(i - 1) : s[j] # c) - 1
    ELSE -1
\* strings.TrimSpace
RECURSIVE TrimLeft(_)
TrimLeft(s) == IF s # <<>> /\ Head(s) = Space THEN TrimLeft(Tail(s)) ELSE s
RECURSIVE TrimRight(_)
TrimRight(s) ==
    IF s # <<>> /\ s[Len(s)] = Space THEN TrimRight(SubSeq(s, 1, Len(s) - 1)) ELSE s
TrimSpace(s) == TrimRight(TrimLeft(s))

IsCommandAnywhere(m) ==
    IF m = Nil \/ Len(m.Entities) = 0 THEN FALSE
    ELSE m.Entities[1].Type = "bot_command"
IsCommand(m) ==
    IF m = Nil \/ Len(m.Entities) = 0 THEN FALSE
    ELSE m.Entities[1].Type = "bot_command" /\ m.Entities[1].Offset = 0

Command(m) ==
    IF ~IsCommand(m) THEN <<>>
    ELSE LET entity == m.Entities[1] IN
         IF entity.Length > Len(m.Text) THEN <<>>
         ELSE LET command == SliceTo(m.Text, entity.Length)
                  noSlash == IF Len(command) > 0 /\ command[1] = Slash
                             THEN SliceFrom(command, 1) ELSE command
                  i == Index(noSlash, At)
              IN IF i # -1 THEN SliceTo(noSlash, i) ELSE noSlash

CommandArguments(m) ==
    IF ~IsCommand(m) THEN <<>>
    ELSE LET entity == m.Entities[1] IN
         IF entity.Length >= Len(m.Text) THEN <<>>
         ELSE TrimSpace(SliceFrom(m.Text, entity.Length))

NoOut == [isCommand |-> FALSE, command |-> <<>>, arguments |-> <<>>]
\* a handler receives the message and calls the three methods
Inspect ==
    /\ ~msg.called
    /\ msg' = [msg EXCEPT !.called = TRUE,
                          !.out = [isCommand |-> IsCommand(msg.m),
                                   command |-> Command(msg.m),
                                   arguments |-> CommandArguments(msg.m)]]
    /\ UNCHANGED <<sqldbVars, bot, report, llm, secret>>

InitMsg ==
    /\ SqldbUnused
    /\ msg \in [m : Messages, called : {FALSE}, out : {NoOut}]
    /\ bot = Unused /\ report = Unused /\ llm = Unused /\ secret = Unused
NextMsg == Inspect
SpecMsg == InitMsg /\ [][NextMsg]_vars

Inspected == msg.called
\* the stated condition of IsCommand, on the message
FirstEntityIsCommandAtZero(m) ==
    /\ m # Nil
    /\ Len(m.Entities) >= 1
    /\ m.Entities[1].Type = "bot_command"
    /\ m.Entities[1].Offset = 0
IsPrefix(p, s) == Len(p) <= Len(s) /\ SubSeq(s, 1, Len(p)) = p

(* C14: for a message that is a command whose entity is no longer than the
   text, Command returns the first Length characters of Text without a
   leading '/' and cut before the first '@'; it returns the empty string when
   the message is no command or the entity is longer than the text. *)
C14_Command ==
    Inspected =>
        LET m == msg.m
            c == msg.out.command
        IN IF FirstEntityIsCommandAtZero(m) /\ m.Entities[1].Length <= Len(m.Text)
           THEN LET first == SubSeq(m.Text, 1, m.Entities[1].Length)
                    body == IF first # <<>> /\ Head(first) = Slash THEN Tail(first) ELSE first
                IN /\ IsPrefix(c, body)
                   /\ \A i \in 1..Len(c) : c[i] # At
                   /\ Len(c) = Len(body) \/ body[Len(c) + 1] = At
           ELSE c = <<>>

\* "/a" and "/a@a" both give "a"; here the second
C14_Witness ==
    /\ Inspected
    /\ msg.m # Nil
    /\ msg.m.Text = <<Slash, Letter, At, Letter>>
    /\ msg.m.Entities = <<[Type |-> "bot_command", Offset |-> 0, Length |-> 4]>>
    /\ msg.out.command = <<Letter>>

(* C15: IsCommand is true exactly when the message is not nil, has an entity
   and its first entity is a bot_command at offset 0; when it is false, as
   for a nil message or one whose bot_command entity is not at offset 0,
   Command and CommandArguments return the empty string. *)
C15_IsCommand ==
    Inspected =>
        /\ msg.out.isCommand <=> FirstEntityIsCommandAtZero(msg.m)
        /\ ~msg.out.isCommand => msg.out.command = <<>> /\ msg.out.arguments = <<>>
        /\ (msg.m = Nil \/ (msg.m # Nil /\ \A i \in 1..Len(msg.m.Entities) :
                               msg.m.Entities[i].Type = "bot_command"
                                   => msg.m.Entities[i].Offset # 0))
              => ~msg.out.isCommand

\* a bot_command entity at offset 1 over a text that would otherwise give a
\* command and arguments
C15_Witness ==
    /\ Inspected
    /\ msg.m # Nil
    /\ msg.m.Text = <<Slash, Letter, Space, Letter>>
    /\ msg.m.Entities = <<[Type |-> "bot_command", Offset |-> 1, Length |-> 2]>>
    /\ ~msg.out.isCommand
    /\ msg.out.command = <<>> /\ msg.out.arguments = <<>>

(***************************************************************************)
(* telegram: Bot, its polling goroutine, the callers of Close and a        *)
(* consumer of Updates().  bot is a record:                                *)
(*   closed, mu      the flag and the holder of the mutex (NoCaller: free) *)
(*   ctxDone         the context handed to pollUpdates is cancelled        *)
(*   wg              the counter of the WaitGroup                          *)
(*   updates         the buffered channel: the update ids in it            *)
(*   chClosed        close(b.updates) was executed                         *)
(*   upstream        the channel of the library: "none", "open", "closed"  *)
(*   polled          number of updates taken from the library so far       *)
(*   held            the update pollUpdates is sending (0: none)           *)
(*   poller          position of pollUpdates                               *)
(*   caller          per caller: position in Close                         *)
(*   received        number of updates the consumer took                   *)
(*   sawClosed       the consumer received the closing of the channel      *)
(***************************************************************************)
UpdatesCap == 100
MaxUpdates == 101
MaxReceives == 2
Callers == {1, 2}
NoCaller == 0

InitBot ==
    /\ SqldbUnused
    /\ bot = [closed |-> FALSE, mu |-> NoCaller, ctxDone |-> FALSE, wg |-> 1,
              updates |-> <<>>, chClosed |-> FALSE, upstream |-> "none",
              polled |-> 0, held |-> 0, poller |-> "start",
              caller |-> [c \in Callers |-> "idle"],
              received |-> 0, sawClosed |-> FALSE]
    /\ msg = Unused /\ report = Unused /\ llm = Unused /\ secret = Unused

botOnly == <<sqldbVars, msg, report, llm, secret>>

\* return of pollUpdates as if it also closed b.updates
PollerExitClosing(b) ==
    [b EXCEPT !.poller = "exited", !.wg = @ - 1, !.held = 0, !.chClosed = TRUE]

\* return of pollUpdates, with the deferred b.wg.Done()
PollerExit(b) == [b EXCEPT !.poller = "exited", !.wg = @ - 1, !.held = 0]

\* updatesChan, err := b.api.GetUpdatesChan(u): the channel, or an error
PollStart ==
    /\ bot.poller = "start"
    /\ \/ bot' = [bot EXCEPT !.poller = "select", !.upstream = "open"]
       \/ bot' = PollerExit(bot)
    /\ UNCHANGED botOnly

\* the outer select: the context is done, an update arrived, or the channel
\* of the library was closed
PollSelect ==
    /\ bot.poller = "select"
    /\ \/ /\ bot.ctxDone
          /\ bot' = PollerExit(bot)
       \/ /\ bot.upstream = "open"
          /\ bot.polled < MaxUpdates
          /\ bot' = [bot EXCEPT !.polled = @ + 1, !.held = bot.polled + 1,
                                !.poller = "send"]
       \/ /\ bot.upstream = "closed"
          /\ bot' = PollerExit(bot)
    /\ UNCHANGED botOnly

\* the inner select without its ctx.Done() case: a plain b.updates <- update
PollSendNoCancel ==
    /\ bot.poller = "send"
    /\ \/ /\ bot.chClosed
          /\ bot' = [bot EXCEPT !.poller = "panic: send on closed channel"]
       \/ /\ ~bot.chClosed
          /\ Len(bot.updates) < UpdatesCap
          /\ bot' = [bot EXCEPT !.updates = Append(@, bot.held), !.held = 0,
                                !.poller = "select"]
    /\ UNCHANGED botOnly

\* the inner select: b.updates <- update, or the context is done
PollSend ==
    /\ bot.poller = "send"
    /\ \/ /\ bot.chClosed
          /\ bot' = [bot EXCEPT !.poller = "panic: send on closed channel"]
       \/ /\ ~bot.chClosed
          /\ Len(bot.updates) < UpdatesCap
          /\ bot' = [bot EXCEPT !.updates = Append(@, bot.held), !.held = 0,
                                !.poller = "select"]
       \/ /\ bot.ctxDone
          /\ bot' = PollerExit(bot)
    /\ UNCHANGED botOnly

\* the library closes the channel it handed out
UpstreamClose ==
    /\ bot.upstream = "open"
    /\ bot' = [bot EXCEPT !.upstream = "closed"]
    /\ UNCHANGED botOnly

\* a goroutine calls b.Close() and reaches b.mu.Lock()
CloseCall(c) ==
    /\ bot.caller[c] = "idle"
    /\ bot' = [bot EXCEPT !.caller[c] = "lock"]
    /\ UNCHANGED botOnly

CloseLock(c) ==
    /\ bot.caller[c] = "lock"
    /\ bot.mu = NoCaller
    /\ bot' = [bot EXCEPT !.mu = c, !.caller[c] = "locked"]
    /\ UNCHANGED botOnly

\* Close without the test of b.closed: every call goes on to the shutdown
CloseCheckNoFlag(c) ==
    /\ bot.caller[c] = "locked"
    /\ bot' = [bot EXCEPT !.closed = TRUE, !.mu = NoCaller, !.caller[c] = "cancel"]
    /\ UNCHANGED botOnly

\* if b.closed { b.mu.Unlock(); return nil }; b.closed = true; b.mu.Unlock()
CloseCheck(c) ==
    /\ bot.caller[c] = "locked"
    /\ IF bot.closed
       THEN bot' = [bot EXCEPT !.mu = NoCaller, !.caller[c] = "returned"]
       ELSE bot' = [bot EXCEPT !.closed = TRUE, !.mu = NoCaller, !.caller[c] = "cancel"]
    /\ UNCHANGED botOnly

\* b.cancel()
CloseCancel(c) ==
    /\ bot.caller[c] = "cancel"
    /\ bot' = [bot EXCEPT !.ctxDone = TRUE, !.caller[c] = "wait"]
    /\ UNCHANGED botOnly

\* b.wg.Wait()
CloseWait(c) ==
    /\ bot.caller[c] = "wait"
    /\ bot.wg = 0
    /\ bot' = [bot EXCEPT !.caller[c] = "close"]
    /\ UNCHANGED botOnly

\* close(b.updates); return nil
CloseChannel(c) ==
    /\ bot.caller[c] = "close"
    /\ IF bot.chClosed
       THEN bot' = [bot EXCEPT !.caller[c] = "panic: close of closed channel"]
       ELSE bot' = [bot EXCEPT !.chClosed = TRUE, !.caller[c] = "returned"]
    /\ UNCHANGED botOnly

\* the consumer receives from Updates(): an update, or the closing
Receive ==
    /\ ~bot.sawClosed
    /\ \/ /\ bot.updates # <<>>
          /\ bot.received < MaxReceives
          /\ bot' = [bot EXCEPT !.updates = Tail(@), !.received = @ + 1]
       \/ /\ bot.updates = <<>>
          /\ bot.chClosed
          /\ bot' = [bot EXCEPT !.sawClosed = TRUE]
    /\ UNCHANGED botOnly

NextBot ==
    \/ PollStart
    \/ PollSelect
    \/ PollSend
    \/ UpstreamClose
    \/ \E c \in Callers : CloseCall(c)
    \/ \E c \in Callers : CloseLock(c)
    \/ \E c \in Callers : CloseCheck(c)
    \/ \E c \in Callers : CloseCancel(c)
    \/ \E c \in Callers : CloseWait(c)
    \/ \E c \in Callers : CloseChannel(c)
    \/ Receive
SpecBot == InitBot /\ [][NextBot]_vars

(* C13: whenever a call of Close has returned, the polling goroutine has
   exited and the channel of Updates() is closed. *)
C13_CloseStops ==
    \A c \in Callers :
        bot.caller[c] = "returned" => bot.poller = "exited" /\ bot.chClosed

(* C28: in every interleaving of the polling goroutine, the consumer and
   two calls of Close, one after the other or at the same time, no call
   closes the channel of Updates() when it is closed already, the polling
   goroutine never sends on the closed channel (the channel is closed only
   after the goroutine has exited), at most one call goes through the
   shutdown, and no call ends in a panic instead of returning nil. *)
ShuttingDown == {c \in Callers : bot.caller[c] \in {"cancel", "wait", "close"}}
C28_ClosedOnce ==
    /\ \A c \in Callers :
          bot.caller[c] \in {"idle", "lock", "locked", "cancel", "wait", "close", "returned"}
    /\ bot.poller \in {"start", "select", "send", "exited"}
    /\ bot.chClosed => bot.poller = "exited" /\ bot.wg = 0
    /\ Cardinality(ShuttingDown) <= 1
    /\ ShuttingDown # {} => ~bot.chClosed

\* both calls of Close have returned, one of them closed the channel, and
\* updates had been sent to it before
C28_Witness ==
    /\ \A c \in Callers : bot.caller[c] = "returned"
    /\ bot.chClosed
    /\ bot.polled > 0 /\ bot.held = 0
    /\ bot.updates # <<>>

\* the scheduler: a goroutine that can take its next step takes it at some
\* time, in the polling goroutine and in every caller of Close (a select
\* with a ready case fires, a Lock of a free mutex is granted, Wait returns
\* once the counter is zero).  Nothing makes the consumer receive, the
\* library deliver or close its channel, or anybody call Close.
FairBot ==
    /\ WF_vars(PollSelect)
    /\ WF_vars(PollSend)
    /\ \A c \in Callers :
          /\ WF_vars(CloseLock(c))
          /\ WF_vars(CloseCheck(c))
          /\ WF_vars(CloseCancel(c))
          /\ WF_vars(CloseWait(c))
          /\ WF_vars(CloseChannel(c))
SpecBotFair == InitBot /\ [][NextBot]_vars /\ FairBot

(* C29: once GetUpdatesChan has handed out its channel, every call of Close
   that has begun returns at some later time, whatever the consumer does:
   also with the buffer of Updates() full and nobody receiving. *)
C29_CloseReturns ==
    \A c \in Callers :
        (bot.upstream # "none" /\ bot.caller[c] # "idle") ~> (bot.caller[c] = "returned")

\* the buffer is full, the consumer never received, the polling goroutine had
\* taken one more update than fits and gave it up on the cancellation, and
\* the call of Close has returned
C29_Witness ==
    /\ Len(bot.updates) = UpdatesCap
    /\ bot.received = 0
    /\ bot.polled = UpdatesCap + 1
    /\ bot.poller = "exited"
    /\ bot.upstream = "open"
    /\ \E c \in Callers : bot.caller[c] = "returned"

(* C30: the channel of Updates() is closed only by the step close(b.updates)
   of a call of Close; once the polling goroutine has exited, for whatever
   reason, no update is added to the channel; and the consumer sees the
   channel closed only after that step, so that with the goroutine gone, the
   buffer empty and the channel open it cannot receive. *)
C30_ClosedOnlyByClose ==
    [][/\ (~bot.chClosed /\ bot'.chClosed) =>
             \E c \in Callers : bot.caller[c] = "close" /\ bot'.caller[c] = "returned"
       /\ bot.poller = "exited" =>
             /\ Len(bot'.updates) <= Len(bot.updates)
             /\ bot'.poller = "exited"
       /\ (~bot.sawClosed /\ bot'.sawClosed) => bot.chClosed
       /\ (bot.updates = <<>> /\ ~bot.chClosed) => bot'.received = bot.received]_vars

\* the library closed its channel and the polling goroutine returned; the
\* consumer has received what was sent, nobody has called Close, and the
\* channel is open and empty: the consumer blocks
C30_Witness ==
    /\ bot.poller = "exited"
    /\ bot.upstream = "closed"
    /\ \A c \in Callers : bot.caller[c] = "idle"
    /\ bot.received > 0
    /\ bot.updates = <<>>
    /\ ~bot.chClosed /\ ~bot.sawClosed
    /\ ~ENABLED Receive

(***************************************************************************)
(* report: Setup, Report and replaceAngleBrackets.  A message is a         *)
(* sequence of runes (code points); its Go string is their UTF-8 encoding, *)
(* in which a rune takes Utf8Len bytes.  report is a record:               *)
(*   service, defaultTitle   the package variables                         *)
(*   last                    the last call: its arguments, its error and   *)
(*                           the package variables before it               *)
(*   out                     what the last call passed to Send and logged  *)
(***************************************************************************)
MaxMessage == 3
Lt == 60
Gt == 62
Bar == 124
LetterA == 97
EAcute == 233
Runes == {Lt, Gt, LetterA, EAcute}
ReportMessages == SeqsUpTo(Runes, MaxMessage)
Titles == {"", "Custom Title"}
DefaultTitles == {"Default Title", "Other Title"}
Tokens == {"", "token"}
NilService == "nil"
TelegramService == "telegram"
NotInitialized == "Notification service is not initialized"
SendError == "send error"

\* number of bytes of the UTF-8 encoding of a rune
Utf8Len(r) == IF r < 128 THEN 1 ELSE IF r < 2048 THEN 2 ELSE IF r < 65536 THEN 3 ELSE 4
\* len(input): the number of bytes of the string
RECURSIVE ByteLen(_)
ByteLen(input) == IF input = <<>> THEN 0 ELSE Utf8Len(Head(input)) + ByteLen(Tail(input))
\* the index (from 0) that range gives the k-th rune: the offset of its first byte
ByteOffset(input, k) == ByteLen(SubSeq(input, 1, k - 1))

replaceRune(char) == IF char = Lt THEN Bar ELSE IF char = Gt THEN Bar ELSE char
\* result := make([]rune, len(input)); for i, char := range input { result[i] = ... }
replaceAngleBrackets(input) ==
    [i \in 1..ByteLen(input) |->
        IF \E k \in 1..Len(input) : ByteOffset(input, k) = i - 1
        THEN replaceRune(input[CHOOSE k \in 1..Len(input) : ByteOffset(input, k) = i - 1])
        ELSE 0]

setupWithService(st, service, defaultTitle) ==
    [st EXCEPT !.service = service, !.defaultTitle = defaultTitle]

\* telegram.New fails for an empty token, and may fail for any other
SetupTitleFirst(st, telegramApiToken, defaultTitle, fails) ==
    IF telegramApiToken = "" \/ fails
    THEN [st EXCEPT !.defaultTitle = defaultTitle]
    ELSE setupWithService(st, TelegramService, defaultTitle)
Setup(st, telegramApiToken, defaultTitle, fails) ==
    IF telegramApiToken = "" \/ fails
    THEN st
    ELSE setupWithService(st, TelegramService, defaultTitle)

NoSend == [sent |-> <<>>, logged |-> <<>>]
\* what Report passes to the notifier and logs
Report(st, title, message, sendFails) ==
    LET t == IF title = "" THEN st.defaultTitle ELSE title IN
    IF st.service = NilService
    THEN [sent |-> <<>>, logged |-> <<NotInitialized>>]
    ELSE [sent |-> <<[title |-> t, message |-> replaceAngleBrackets(message)]>>,
          logged |-> IF sendFails THEN <<SendError>> ELSE <<>>]

NoOp == [op |-> "none", title |-> "", message |-> <<>>, token |-> "", err |-> FALSE,
         before |-> [service |-> NilService, defaultTitle |-> ""]]
Before == [service |-> report.service, defaultTitle |-> report.defaultTitle]

reportOnly == <<sqldbVars, msg, bot, llm, secret>>

InitReport ==
    /\ SqldbUnused
    /\ report = [service |-> NilService, defaultTitle |-> "", last |-> NoOp, out |-> NoSend]
    /\ msg = Unused /\ bot = Unused /\ llm = Unused /\ secret = Unused

CallSetup ==
    /\ report.last = NoOp
    /\ \E token \in Tokens, defaultTitle \in DefaultTitles, fails \in BOOLEAN :
          LET st == Setup(report, token, defaultTitle, fails) IN
          report' = [st EXCEPT !.last = [op |-> "Setup", title |-> defaultTitle,
                                         message |-> <<>>, token |-> token,
                                         err |-> (token = "" \/ fails),
                                         before |-> Before],
                               !.out = NoSend]
    /\ UNCHANGED reportOnly

\* _notifyService = nil
ResetService ==
    /\ report.last = NoOp
    /\ report.service # NilService
    /\ report' = [report EXCEPT !.service = NilService,
                                !.last = [NoOp EXCEPT !.op = "Reset", !.before = Before],
                                !.out = NoSend]
    /\ UNCHANGED reportOnly

CallReport ==
    /\ report.last = NoOp
    /\ \E title \in Titles, message \in ReportMessages, sendFails \in BOOLEAN :
          report' = [report EXCEPT !.last = [op |-> "Report", title |-> title,
                                             message |-> message, token |-> "",
                                             err |-> FALSE, before |-> Before],
                                   !.out = Report(report, title, message, sendFails)]
    /\ UNCHANGED reportOnly

\* the caller has examined what the call sent and logged, and goes on
Examine ==
    /\ report.last # NoOp
    /\ report' = [report EXCEPT !.last = NoOp, !.out = NoSend]
    /\ UNCHANGED reportOnly

NextReport == CallSetup \/ ResetService \/ CallReport \/ Examine
SpecReport == InitReport /\ [][NextReport]_vars

Reported == report.last.op = "Report" /\ report.last.before.service # NilService

(* C16: the message Report passes to the notifier has as many characters as
   the message given, with '|' where that has '<' or '>' and the same
   character everywhere else. *)
C16_Replace ==
    Reported =>
        /\ Len(report.out.sent) = 1
        /\ LET given == report.last.message
               passed == report.out.sent[1].message
           IN /\ Len(passed) = Len(given)
              /\ \A i \in 1..Len(given) :
                    passed[i] = IF given[i] \in {Lt, Gt} THEN Bar ELSE given[i]

(* C17: a Report made while no notification service is set sends nothing and
   logs that the service is not initialised; a Setup that failed leaves the
   service and the default title as they were. *)
C17_NoService ==
    /\ (report.last.op = "Report" /\ report.last.before.service = NilService) =>
          /\ report.out.sent = <<>>
          /\ report.out.logged = <<NotInitialized>>
    /\ (report.last.op = "Setup" /\ report.last.err) =>
          /\ report.service = report.last.before.service
          /\ report.defaultTitle = report.last.before.defaultTitle
          /\ report.out.sent = <<>>

\* a Report made after the service was set and then reset to nil, with a
\* message that would otherwise be sent
C17_Witness ==
    /\ report.last.op = "Report"
    /\ report.last.before.service = NilService
    /\ report.last.before.defaultTitle = "Default Title"
    /\ report.last.message = <<Lt, LetterA, Gt>>
    /\ report.out = [sent |-> <<>>, logged |-> <<NotInitialized>>]

(***************************************************************************)
(* llm: the Ollama client.  llm is a record:                               *)
(*   server     the models the Ollama server lists                         *)
(*   model      the name of the Model GetModel handed out ("": none yet)   *)
(*   call       the last call and its arguments                            *)
(*   result     what it returned: the kind of value or error               *)
(*   requests   the HTTP requests the last call sent, in order             *)
(* A temperature is counted in tenths (7 is 0.7).                          *)
(***************************************************************************)
MaxChat == 2
DefaultTemperature == 7
DefaultMaxTokens == 0
ModelNames == {"", "llama", "llama2", "mistral"}
ServerLists ==
    {<<>>, <<[Name |-> "llama2", Size |-> 1]>>,
     <<[Name |-> "mistral", Size |-> 2], [Name |-> "llama2", Size |-> 1]>>}
Prompts == {"", "Hello"}
ChatMessage == [Role : {"", "user"}, Content : {"", "Hi"}]
ChatLists == SeqsUpTo(ChatMessage, MaxChat)
NilOptions == [nil |-> TRUE, Temperature |-> 0, MaxTokens |-> 0]
Options == {NilOptions} \cup [nil : {FALSE}, Temperature : {-1, 0, 7}, MaxTokens : {-1, 0, 100}]
\* what becomes of an HTTP request: answered with 200 and a well-formed body,
\* not answered, answered with another status, answered with a malformed body
Answers == {"ok", "unreachable", "status", "malformed"}

NoError == [kind |-> "nil", field |-> "", index |-> 0]
ValidationError(field, index) == [kind |-> "ValidationError", field |-> field, index |-> index]

\* (*RequestOptions).Validate
ValidateNothing(o) == NoError
Validate(o) ==
    IF o.Temperature < 0 THEN ValidationError("Temperature", 0)
    ELSE IF o.MaxTokens < 0 THEN ValidationError("MaxTokens", 0)
    ELSE NoError

validatePrompt(prompt) ==
    IF prompt = "" THEN ValidationError("prompt", 0) ELSE NoError

validateModelName(name) ==
    IF name = "" THEN ValidationError("model name", 0) ELSE NoError

\* the first message, in order, with an empty Role or Content decides
RECURSIVE validateFrom(_, _)
validateFrom(messages, i) ==
    IF i > Len(messages) THEN NoError
    ELSE IF messages[i].Role = "" THEN ValidationError("messages[i].Role", i - 1)
    ELSE IF messages[i].Content = "" THEN ValidationError("messages[i].Content", i - 1)
    ELSE validateFrom(messages, i + 1)
validateMessages(messages) ==
    IF Len(messages) = 0 THEN ValidationError("messages", 0)
    ELSE validateFrom(messages, 1)

DefaultRequestOptions ==
    [nil |-> FALSE, Temperature |-> DefaultTemperature, MaxTokens |-> DefaultMaxTokens]

\* the outcome of a call: the value or error returned and the requests sent
Outcome(kind, requests) == [result |-> [kind |-> kind, field |-> "", index |-> 0],
                            requests |-> requests]
Rejected(err) == [result |-> err, requests |-> <<>>]

\* options["temperature"], and options["num_predict"] when MaxTokens > 0
RequestOptionsMap(opts) ==
    [temperature |-> opts.Temperature,
     num_predict |-> IF opts.MaxTokens > 0 THEN <<opts.MaxTokens>> ELSE <<>>]

\* the request is sent; what is returned depends on the answer
Exchange(request, answer) ==
    Outcome(CASE answer = "ok" -> "Response"
              [] answer = "unreachable" -> "error: failed to send request"
              [] answer = "status" -> "APIError"
              [] answer = "malformed" -> "error: failed to decode response",
            <<request>>)

Ask(modelName, prompt, opts, answer) ==
    IF validatePrompt(prompt) # NoError THEN Rejected(validatePrompt(prompt))
    ELSE LET o == IF opts.nil THEN DefaultRequestOptions ELSE opts IN
         IF Validate(o) # NoError THEN Rejected(Validate(o))
         ELSE Exchange([path |-> "/api/generate", model |-> modelName, prompt |-> prompt,
                        messages |-> <<>>, options |-> RequestOptionsMap(o)], answer)

Chat(modelName, messages, opts, answer) ==
    IF validateMessages(messages) # NoError THEN Rejected(validateMessages(messages))
    ELSE LET o == IF opts.nil THEN DefaultRequestOptions ELSE opts IN
         IF Validate(o) # NoError THEN Rejected(Validate(o))
         ELSE Exchange([path |-> "/api/chat", model |-> modelName, prompt |-> "",
                        messages |-> messages, options |-> RequestOptionsMap(o)], answer)

\* ListModels: GET /api/tags; the models of the answer, or an error
TagsRequest == [path |-> "/api/tags", model |-> "", prompt |-> "", messages |-> <<>>,
                options |-> [temperature |-> 0, num_predict |-> <<>>]]
ListModels(server, answer) ==
    [err |-> answer # "ok",
     models |-> IF answer = "ok"
                THEN [i \in 1..Len(server) |-> [Name |-> server[i].Name, Size |-> server[i].Size]]
                ELSE <<>>]

\* for _, m := range models { if m.Name == name { found = true; break } }
FoundAny(models, name) == Len(models) > 0
Found(models, name) == \E i \in 1..Len(models) : models[i].Name = name

GetModel(server, name, answer) ==
    IF validateModelName(name) # NoError THEN Rejected(validateModelName(name))
    ELSE LET listed == ListModels(server, answer) IN
         IF listed.err THEN Outcome("error: failed to list models", <<TagsRequest>>)
         ELSE IF ~Found(listed.models, name)
         THEN Outcome("ModelNotFoundError", <<TagsRequest>>)
         ELSE Outcome("Model", <<TagsRequest>>)

NoLlmCall == [op |-> "none", name |-> "", prompt |-> "", messages |-> <<>>,
              opts |-> NilOptions, answer |-> "ok"]
llmOnly == <<sqldbVars, msg, bot, report, secret>>

InitLlm ==
    /\ SqldbUnused
    /\ \E server \in ServerLists :
          llm = [server |-> server, model |-> "", call |-> NoLlmCall,
                 result |-> NoError, requests |-> <<>>]
    /\ msg = Unused /\ bot = Unused /\ report = Unused /\ secret = Unused

CallGetModel ==
    /\ llm.call = NoLlmCall
    /\ \E name \in ModelNames, answer \in Answers :
          LET out == GetModel(llm.server, name, answer) IN
          llm' = [llm EXCEPT !.call = [NoLlmCall EXCEPT !.op = "GetModel", !.name = name,
                                                        !.answer = answer],
                             !.result = out.result,
                             !.requests = out.requests,
                             !.model = IF out.result.kind = "Model" THEN name ELSE @]
    /\ UNCHANGED llmOnly

CallAsk ==
    /\ llm.call = NoLlmCall
    /\ llm.model # ""
    /\ \E prompt \in Prompts, opts \in Options, answer \in Answers :
          LET out == Ask(llm.model, prompt, opts, answer) IN
          llm' = [llm EXCEPT !.call = [NoLlmCall EXCEPT !.op = "Ask", !.prompt = prompt,
                                                        !.opts = opts, !.answer = answer],
                             !.result = out.result,
                             !.requests = out.requests]
    /\ UNCHANGED llmOnly

CallChat ==
    /\ llm.call = NoLlmCall
    /\ llm.model # ""
    /\ \E messages \in ChatLists, opts \in Options, answer \in Answers :
          LET out == Chat(llm.model, messages, opts, answer) IN
          llm' = [llm EXCEPT !.call = [NoLlmCall EXCEPT !.op = "Chat", !.messages = messages,
                                                        !.opts = opts, !.answer = answer],
                             !.result = out.result,
                             !.requests = out.requests]
    /\ UNCHANGED llmOnly

\* the caller has looked at what the call returned and drops it
Release ==
    /\ llm.call # NoLlmCall
    /\ llm' = [llm EXCEPT !.call = NoLlmCall, !.result = NoError, !.requests = <<>>]
    /\ UNCHANGED llmOnly

NextLlm == CallGetModel \/ CallAsk \/ CallChat \/ Release
SpecLlm == InitLlm /\ [][NextLlm]_vars

\* the input of the last Ask or Chat is one the claim names as invalid
InvalidInput ==
    \/ llm.call.op = "Ask" /\ llm.call.prompt = ""
    \/ llm.call.op = "Chat" /\ llm.call.messages = <<>>
    \/ llm.call.op = "Chat" /\ \E i \in 1..Len(llm.call.messages) :
          llm.call.messages[i].Role = "" \/ llm.call.messages[i].Content = ""
    \/ llm.call.op \in {"Ask", "Chat"} /\ ~llm.call.opts.nil
          /\ (llm.call.opts.Temperature < 0 \/ llm.call.opts.MaxTokens < 0)

(* C18: an Ask or Chat with an empty prompt, an empty message list, a message
   with an empty role or content, a negative temperature or a negative
   max-token count returns a ValidationError and sends no HTTP request; any
   other Ask or Chat sends its one request, and with nil options that
   request carries the default options. *)
C18_ValidateFirst ==
    llm.call.op \in {"Ask", "Chat"} =>
        IF InvalidInput
        THEN llm.result.kind = "ValidationError" /\ llm.requests = <<>>
        ELSE /\ llm.result.kind # "ValidationError"
             /\ Len(llm.requests) = 1
             /\ llm.call.opts.nil =>
                   llm.requests[1].options = [temperature |-> 7, num_predict |-> <<>>]

\* a Chat whose second message has no content, with valid options
C18_Witness ==
    /\ llm.call.op = "Chat"
    /\ llm.call.messages = <<[Role |-> "user", Content |-> "Hi"],
                             [Role |-> "user", Content |-> ""]>>
    /\ llm.call.opts = [nil |-> FALSE, Temperature |-> 7, MaxTokens |-> 100]
    /\ llm.result = ValidationError("messages[i].Content", 1)
    /\ llm.requests = <<>>

(* C19: GetModel returns a ValidationError for the empty name without a
   request to the server; when the server lists its models it returns a
   ModelNotFoundError for a name that is not among them, and it returns a
   Model only for a name that is exactly one of the listed names. *)
C19_GetModel ==
    llm.call.op = "GetModel" =>
        LET listed == {llm.server[i].Name : i \in 1..Len(llm.server)} IN
        /\ llm.call.name = "" =>
              llm.result.kind = "ValidationError" /\ llm.requests = <<>>
        /\ (llm.call.name # "" /\ llm.call.answer = "ok" /\ llm.call.name \notin listed) =>
              llm.result.kind = "ModelNotFoundError"
        /\ llm.result.kind = "Model" =>
              llm.call.name \in listed /\ llm.call.answer = "ok" /\ llm.model = llm.call.name
        /\ (llm.call.name \in listed /\ llm.call.answer = "ok") => llm.result.kind = "Model"

\* "llama" asked of a server that lists "llama2"
C19_Witness ==
    /\ llm.call.op = "GetModel"
    /\ llm.call.name = "llama"
    /\ llm.call.answer = "ok"
    /\ llm.server = <<[Name |-> "llama2", Size |-> 1]>>
    /\ llm.result.kind = "ModelNotFoundError"

(***************************************************************************)
(* secret: WrapSecret and UnwrapSecret.  Strings and slices are sequences  *)
(* of bytes (0..255); a key is its length in bytes and its material.  The  *)
(* AES-GCM of the library is kept in its structure: a cipher exists for    *)
(* keys of 16, 24 or 32 bytes only, Seal appends to dst the plaintext      *)
(* combined byte by byte with a key stream of key and nonce, followed by a *)
(* tag of TagSize bytes over key, nonce and ciphertext; Open recomputes    *)
(* the tag, fails when it differs and otherwise removes the key stream.    *)
(* secret is a record: secret, key (the inputs), step, wrapped and         *)
(* unwrapped (value and error of the two calls), unwrapKey.                *)
(***************************************************************************)
MaxSecret == 2
NonceSize == 12
TagSize == 16
SecretBytes == {0, 97, 255}
Secrets == SeqsUpTo(SecretBytes, MaxSecret)
Keys == [size : {5, 16, 32}, material : {1, 2}]
Nonces == {[i \in 1..NonceSize |-> 0], [i \in 1..NonceSize |-> (21 * i) % 256]}

RECURSIVE SumBytes(_)
SumBytes(b) == IF b = <<>> THEN 0 ELSE Head(b) + SumBytes(Tail(b))

\* aes.NewCipher: KeySizeError unless the key has 16, 24 or 32 bytes
NewCipherErr(key) == key.size \notin {16, 24, 32}

KeyStream(key, nonce, i) == (key.material * 31 + nonce[((i - 1) % NonceSize) + 1] + i) % 256
GcmTag(key, nonce, ciphertext) ==
    [j \in 1..TagSize |->
        (key.material * 17 + SumBytes(nonce) + SumBytes(ciphertext) + Len(ciphertext) + j) % 256]

\* gcm.Seal(dst, nonce, plaintext, nil): dst followed by ciphertext and tag
SealWithoutDst(key, dst, nonce, plaintext) ==
    LET ciphertext == [i \in 1..Len(plaintext) |->
                          (plaintext[i] + KeyStream(key, nonce, i)) % 256]
    IN ciphertext \o GcmTag(key, nonce, ciphertext)
Seal(key, dst, nonce, plaintext) ==
    LET ciphertext == [i \in 1..Len(plaintext) |->
                          (plaintext[i] + KeyStream(key, nonce, i)) % 256]
    IN dst \o ciphertext \o GcmTag(key, nonce, ciphertext)

\* gcm.Open(nil, nonce, ciphertext, nil): the plaintext, or an error
Open(key, nonce, sealed) ==
    IF Len(sealed) < TagSize THEN [err |-> "cipher: message authentication failed", value |-> <<>>]
    ELSE LET ciphertext == SubSeq(sealed, 1, Len(sealed) - TagSize)
             tag == SubSeq(sealed, Len(sealed) - TagSize + 1, Len(sealed))
         IN IF tag # GcmTag(key, nonce, ciphertext)
            THEN [err |-> "cipher: message authentication failed", value |-> <<>>]
            ELSE [err |-> "nil",
                  value |-> [i \in 1..Len(ciphertext) |->
                                (ciphertext[i] + 256 - KeyStream(key, nonce, i)) % 256]]

\* encoding/hex
HexDigits == <<"0", "1", "2", "3", "4", "5", "6", "7", "8", "9", "a", "b", "c", "d", "e", "f">>
RECURSIVE EncodeToString(_)
EncodeToString(b) ==
    IF b = <<>> THEN <<>>
    ELSE <<HexDigits[(Head(b) \div 16) + 1], HexDigits[(Head(b) % 16) + 1]>>
             \o EncodeToString(Tail(b))
IsHexDigit(c) == \E i \in 1..16 : HexDigits[i] = c
FromHexChar(c) == (CHOOSE i \in 1..16 : HexDigits[i] = c) - 1
RECURSIVE DecodeBytes(_)
DecodeBytes(str) ==
    IF str = <<>> THEN <<>>
    ELSE <<FromHexChar(str[1]) * 16 + FromHexChar(str[2])>> \o DecodeBytes(SubSeq(str, 3, Len(str)))
DecodeString(str) ==
    IF Len(str) % 2 # 0 THEN [err |-> "encoding/hex: odd length hex string", value |-> <<>>]
    ELSE IF \E i \in 1..Len(str) : ~IsHexDigit(str[i])
    THEN [err |-> "encoding/hex: invalid byte", value |-> <<>>]
    ELSE [err |-> "nil", value |-> DecodeBytes(str)]

\* nonce: the bytes read from rand.Reader, or <<>> when reading failed
WrapSecret(secretBytes, masterKey, nonce) ==
    IF NewCipherErr(masterKey) THEN [err |-> "crypto/aes: invalid key size", value |-> <<>>]
    ELSE IF Len(nonce) # NonceSize THEN [err |-> "unexpected EOF", value |-> <<>>]
    ELSE [err |-> "nil",
          value |-> EncodeToString(Seal(masterKey, nonce, nonce, secretBytes))]

UnwrapSecret(wrappedSecret, masterKey) ==
    IF NewCipherErr(masterKey) THEN [err |-> "crypto/aes: invalid key size", value |-> <<>>]
    ELSE LET decoded == DecodeString(wrappedSecret) IN
         IF decoded.err # "nil" THEN [err |-> decoded.err, value |-> <<>>]
         ELSE IF Len(decoded.value) < NonceSize
         THEN [err |-> "ciphertext too short", value |-> <<>>]
         ELSE Open(masterKey, SubSeq(decoded.value, 1, NonceSize),
                   SubSeq(decoded.value, NonceSize + 1, Len(decoded.value)))

NotCalled == [err |-> "not called", value |-> <<>>]
secretOnly == <<sqldbVars, msg, bot, report, llm>>

InitSecret ==
    /\ SqldbUnused
    /\ \E s \in Secrets, k \in Keys :
          secret = [secret |-> s, key |-> k, step |-> "new", wrapped |-> NotCalled,
                    unwrapped |-> NotCalled, unwrapKey |-> k]
    /\ msg = Unused /\ bot = Unused /\ report = Unused /\ llm = Unused

Wrap ==
    /\ secret.step = "new"
    /\ \E nonce \in Nonces \cup {<<>>} :
          secret' = [secret EXCEPT !.step = "wrapped",
                                   !.wrapped = WrapSecret(secret.secret, secret.key, nonce)]
    /\ UNCHANGED secretOnly

\* the wrapped secret is handed to UnwrapSecret, with the same key or another
Unwrap ==
    /\ secret.step = "wrapped"
    /\ \E k \in Keys :
          secret' = [secret EXCEPT !.step = "unwrapped", !.unwrapKey = k,
                                   !.unwrapped = UnwrapSecret(secret.wrapped.value, k)]
    /\ UNCHANGED secretOnly

NextSecret == Wrap \/ Unwrap
SpecSecret == InitSecret /\ [][NextSecret]_vars

(* C20: when WrapSecret accepted the secret and the key, UnwrapSecret of what
   it returned, with the same key, returns the secret and no error. *)
C20_RoundTrip ==
    (secret.step = "unwrapped" /\ secret.wrapped.err = "nil" /\ secret.unwrapKey = secret.key)
        => secret.unwrapped = [err |-> "nil", value |-> secret.secret]

\* a secret with the bytes 255 and 0 under a key of 32 bytes and a nonce that
\* is not all zero
C20_Witness ==
    /\ secret.step = "unwrapped"
    /\ secret.wrapped.err = "nil"
    /\ secret.unwrapKey = secret.key
    /\ secret.key.size = 32
    /\ secret.secret = <<255, 0>>
    /\ Len(secret.wrapped.value) = 2 * (NonceSize + 2 + TagSize)
    /\ SubSeq(secret.wrapped.value, 1, 2) = <<"1", "5">>
    /\ secret.unwrapped = [err |-> "nil", value |-> <<255, 0>>]

====
